---- MODULE Spec2Model ----
(***************************************************************************)
(* Model of the MCP prediction server: the HTTP boundary                   *)
(* (MCPPredictController.post_predict), the pipeline orchestrator          *)
(* (PredictionServiceImpl.predict) and the domain entities and exception   *)
(* taxonomy they use.                                                      *)
(*                                                                         *)
(* One request is in flight at a time: post_predict awaits only            *)
(* PredictionService.predict, and PredictionServiceImpl.predict calls its  *)
(* collaborators synchronously, so a handler never yields to the event     *)
(* loop between its first and its last statement.  The position of the     *)
(* handler is nevertheless kept in pc, one value per collaborator call, so *)
(* that the order of the calls is observable.                              *)
(*                                                                         *)
(* The preprocessor, the model and the postprocessor are the abstract      *)
(* collaborators of domain/interfaces.py: a call returns a value or raises *)
(* an exception of any class deriving from Exception.                      *)
(***************************************************************************)
EXTENDS Integers, Sequences, FiniteSets, TLC

\* ------------------------------------------------------------------------
\* Bounds of the model
\* ------------------------------------------------------------------------

\* number of /predict requests served in one behaviour
MaxRequests == 2

\* number of entities constructed directly in one behaviour
MaxConstructions == 2

\* number of concurrent invocations of predict in one behaviour
MaxInvocations == 2

\* number of direct calls of the processors in one behaviour
MaxTransforms == 2

\* ------------------------------------------------------------------------
\* Values
\* ------------------------------------------------------------------------

\* Python's None where a detail string is optional
NoDetails == "<None>"

\* a local variable that has not been assigned yet
Unset == "<unset>"

FeatureNames == {"product_id", "season"}

\* a JSON value of a feature: its Python type, its text, and its items when
\* it is a list
StrValue(s) == [type |-> "str", val |-> s, items |-> << >>]

IntValue(s) == [type |-> "int", val |-> s, items |-> << >>]

NullValue == [type |-> "null", val |-> "", items |-> << >>]

ListValue(xs) == [type |-> "list", val |-> "", items |-> xs]

FeatureValues == {StrValue("ABC123"), NullValue, IntValue("100")}

\* every feature mapping a client can send, the empty one included
FeatureMappings == UNION {[D -> FeatureValues] : D \in SUBSET FeatureNames}

\* the three step kinds re-raised as they are by the outer handler of predict
StepErrorKinds == {"PreprocessingError", "ModelPredictionError", "PostprocessingError"}

\* the subclasses of DomainException
DomainErrorKinds ==
    StepErrorKinds \cup {"PredictionServiceError", "InvalidFeatureError", "ModelNotLoadedError"}

\* exception classes without the message and details attributes
NonDomainKinds == {"ValueError", "NotImplementedError"}

ExceptionKinds == DomainErrorKinds \cup {"DomainException"} \cup NonDomainKinds

\* message texts a collaborator may attach to the exception it raises
CauseMessages == {"cause A", "cause B"}

CauseDetails == {NoDetails, "detail A"}

\* DomainException.__init__: message and optional details; a non-domain
\* exception carries only its message
Exceptions ==
    {e \in [kind : ExceptionKinds, message : CauseMessages, details : CauseDetails] :
        e.kind \in NonDomainKinds => e.details = NoDetails}

NoExc == [kind |-> "<none>", message |-> "", details |-> NoDetails]

\* str(e): Exception.__str__ gives the single constructor argument, which
\* DomainException.__init__ sets to the message
Str(e) == e.message

\* values the abstract collaborators may return
ProcessedInputs ==
    {[k \in {"tensor"} |-> StrValue("input 1")], [k \in {"tensor"} |-> StrValue("input 2")]}

\* processed_input before it is assigned
UnsetInput == [k \in {"<unset>"} |-> NullValue]

\* the argument list of a call without arguments
NoArg == "<no argument>"

\* a value a model returns: its Python type, its text (what str() gives),
\* its items when it is a list or a tuple, its entries when it is a dict
RawValue(t, text, xs, d) == [type |-> t, val |-> text, items |-> xs, entries |-> d]

NullOutput == RawValue("null", "None", << >>, << >>)

Forecast == << [type |-> "int", val |-> "100", items |-> << >>],
              [type |-> "float", val |-> "120.5", items |-> << >>] >>

\* a dict output whose entries already hold a format key
DictOutput ==
    RawValue("dict", "", << >>,
             [k \in {"sales", "format"} |->
                 IF k = "sales" THEN IntValue("100") ELSE StrValue("xml")])

ListOutput == RawValue("list", "", Forecast, << >>)

NumberOutput == RawValue("int", "42", << >>, << >>)

\* an output of another type, such as an array
ArrayOutput == RawValue("ndarray", "[100 120]", << >>, << >>)

\* raw_prediction before it is assigned
UnsetRaw == RawValue("<unset>", "", << >>, << >>)

RawOutputs == {NullOutput, DictOutput, ListOutput, NumberOutput, ArrayOutput}

ModelVersions == {"v1.0.0", ""}

ProcessedOutputs ==
    {[k \in {"result"} |-> StrValue("output 1")], [k \in {"result"} |-> StrValue("output 2")]}

\* processed_output before it is assigned
UnsetOutput == [k \in {"<unset>"} |-> NullValue]

\* confidence scores are counted in tenths: 8 stands for 0.8
ConfidenceOne == 10

NoResponse == [prediction |-> UnsetOutput, confidence |-> -1, model_version |-> Unset]

NoErrorBody == [error |-> "", message |-> "", details |-> NoDetails]

\* ------------------------------------------------------------------------
\* Entities and exceptions (domain layer)
\* ------------------------------------------------------------------------

\* DomainException(message, details=None) and its subclasses
DomainError(kind, message, details) ==
    [kind |-> kind, message |-> message, details |-> details]

\* ValueError(message)
ValueError(message) ==
    [kind |-> "ValueError", message |-> message, details |-> NoDetails]

\* "not v" of a dict: true of the empty mapping only
IsEmptyMapping(v) == DOMAIN v = {}

\* validate_features_not_empty that returns v whatever it is
validate_features_not_empty_Always(v) == TRUE

\* PredictionRequestSchema.validate_features_not_empty: TRUE when the
\* validator returns v, FALSE when it raises
validate_features_not_empty(v) == ~IsEmptyMapping(v)

\* __post_init__ of PredictionRequest without its check
PredictionRequest_post_init_NoCheck(f) == NoExc

\* PredictionRequest.__post_init__: the exception raised, NoExc when none
PredictionRequest_post_init(f) ==
    IF IsEmptyMapping(f)
    THEN ValueError("Features dictionary cannot be empty")
    ELSE NoExc

\* __post_init__ of PredictionResponse with exclusive bounds
PredictionResponse_post_init_Exclusive(conf, version) ==
    IF ~(0 < conf /\ conf < ConfidenceOne)
    THEN ValueError("Confidence must be between 0.0 and 1.0")
    ELSE IF version = ""
         THEN ValueError("Model version cannot be empty")
         ELSE NoExc

\* __post_init__ of PredictionResponse without the check of model_version
PredictionResponse_post_init_NoVersionCheck(conf, version) ==
    IF ~(0 <= conf /\ conf <= ConfidenceOne)
    THEN ValueError("Confidence must be between 0.0 and 1.0")
    ELSE NoExc

\* PredictionResponse.__post_init__: the exception raised, NoExc when none
PredictionResponse_post_init(conf, version) ==
    IF ~(0 <= conf /\ conf <= ConfidenceOne)
    THEN ValueError("Confidence must be between 0.0 and 1.0")
    ELSE IF version = ""
         THEN ValueError("Model version cannot be empty")
         ELSE NoExc

\* ------------------------------------------------------------------------
\* PredictionServiceImpl (application layer)
\* ------------------------------------------------------------------------

\* the statements of predict that call a collaborator or build a value, in
\* the order of the source text
PipelineOrder ==
    << "preprocessor.transform", "model.predict", "model.version",
       "postprocessor.transform", "_calculate_confidence", "PredictionResponse" >>

IndexOf(step) == CHOOSE i \in 1..Len(PipelineOrder) : PipelineOrder[i] = step

\* StepAfter with the confidence computation left out
StepAfter_SkipConfidence(step) ==
    IF step = "preprocessor.transform" THEN "model.predict"
    ELSE IF step = "model.predict" THEN "model.version"
    ELSE IF step = "model.version" THEN "postprocessor.transform"
    ELSE IF step = "postprocessor.transform" THEN "PredictionResponse"
    ELSE "return"

\* the statement executed after step has completed normally; "return" after
\* the last one
StepAfter(step) ==
    IF IndexOf(step) < Len(PipelineOrder)
    THEN PipelineOrder[IndexOf(step) + 1]
    ELSE "return"

\* PcAfterFailure of a handler that runs the failed statement again
PcAfterFailure_Retry(step) == step

\* where control goes when the handler of a failed step executes its raise
\* statement: out of predict, into the caller's except clauses
PcAfterFailure(step) == "except"

\* the placeholder confidence, 0.8
calculate_confidence(raw, processed) == 8

\* Step1Handler that lets domain exceptions through as they are
Step1Handler_Passthrough(e) ==
    IF e.kind \in DomainErrorKinds
    THEN e
    ELSE DomainError("PreprocessingError", "Failed to preprocess input features", Str(e))

\* except Exception of step 1
Step1Handler(e) ==
    DomainError("PreprocessingError", "Failed to preprocess input features", Str(e))

\* Step2Handler that lets ModelNotLoadedError through as it is
Step2Handler_NotLoaded(e) ==
    IF e.kind = "ModelNotLoadedError"
    THEN e
    ELSE DomainError("ModelPredictionError", "Failed to execute model prediction", Str(e))

\* except Exception of step 2
Step2Handler(e) ==
    DomainError("ModelPredictionError", "Failed to execute model prediction", Str(e))

\* Step3Handler that raises the catch-all kind
Step3Handler_Generic(e) ==
    DomainError("PredictionServiceError", "Failed to postprocess model output", Str(e))

\* except Exception of step 3
Step3Handler(e) ==
    DomainError("PostprocessingError", "Failed to postprocess model output", Str(e))

\* OuterHandler without its first clause: everything is wrapped
OuterHandler_WrapAll(e) ==
    DomainError("PredictionServiceError", "Unexpected error during prediction", Str(e))

\* OuterHandler whose second clause re-raises too
OuterHandler_Reraise(e) == e

\* the two except clauses of the outer try of predict
OuterHandler(e) ==
    IF e.kind \in StepErrorKinds
    THEN e
    ELSE DomainError("PredictionServiceError", "Unexpected error during prediction", Str(e))

\* ------------------------------------------------------------------------
\* MCPPredictController (interface layer)
\* ------------------------------------------------------------------------

\* StatusCode with ModelNotLoadedError missing from the 503 clause
StatusCode_NotLoaded(e) ==
    IF e.kind \in {"PreprocessingError", "InvalidFeatureError"} THEN 400
    ELSE IF e.kind = "ModelPredictionError" THEN 503
    ELSE IF e.kind = "PostprocessingError" THEN 502
    ELSE IF e.kind = "PredictionServiceError" THEN 500
    ELSE 500

\* StatusCode with a first clause catching every DomainException
StatusCode_BaseClass(e) ==
    IF e.kind \in DomainErrorKinds \cup {"DomainException"} THEN 400
    ELSE 500

\* the status of the HTTPException raised by the except clause that catches e
StatusCode(e) ==
    IF e.kind \in {"PreprocessingError", "InvalidFeatureError"} THEN 400
    ELSE IF e.kind \in {"ModelNotLoadedError", "ModelPredictionError"} THEN 503
    ELSE IF e.kind = "PostprocessingError" THEN 502
    ELSE IF e.kind = "PredictionServiceError" THEN 500
    ELSE 500

\* format_error_response that drops the details
format_error_response_NoDetails(e) ==
    [error |-> e.kind, message |-> e.message, details |-> NoDetails]

\* MCPPredictController._format_error_response
format_error_response(e) ==
    [error |-> e.kind, message |-> e.message, details |-> e.details]

\* the detail of the HTTPException raised by the except clause that catches e
ErrorDetail(e) ==
    IF e.kind \in DomainErrorKinds
    THEN format_error_response(e)
    ELSE [error |-> "InternalServerError",
          message |-> "An unexpected error occurred",
          details |-> Str(e)]

\* the responses a PredictionService may return: every PredictionResponse
\* that passes __post_init__
ValidResponses ==
    {r \in [prediction : ProcessedOutputs, confidence : {0, 8, ConfidenceOne},
            model_version : ModelVersions] :
        PredictionResponse_post_init(r.confidence, r.model_version) = NoExc}

\* ------------------------------------------------------------------------
\* DefaultPreprocessor (infrastructure layer)
\* ------------------------------------------------------------------------

\* the feature_mapping create_preprocessor passes: None, stored as {}
ConfiguredFeatureMapping == << >>

\* iteration order of a features dict: the order of the keys in the body
KeyOrder == << "product_id", "season" >>

KeyPosition(n) == CHOOSE i \in 1..Len(KeyOrder) : KeyOrder[i] = n

\* str.lower()
Lower(t) ==
    IF t = "ABC123" THEN "abc123"
    ELSE IF t = "Winter" THEN "winter"
    ELSE t

\* float(x) of an int, a float or a bool
FloatOf(v) ==
    [type |-> "float",
     val |-> IF v.type = "bool" THEN (IF v.val = "True" THEN "1" ELSE "0") ELSE v.val,
     items |-> << >>]

\* isinstance(x, (int, float)): bool is a subclass of int
IsNumber(v) == v.type \in {"int", "float", "bool"}

\* _validate_features without the check for None
validate_features_NoNullCheck(f) ==
    IF "product_id" \notin DOMAIN f
    THEN DomainError("PreprocessingError", "Required feature missing: product_id", NoDetails)
    ELSE NoExc

\* DefaultPreprocessor._validate_features: the exception raised, NoExc when none
validate_features(f) ==
    IF "product_id" \notin DOMAIN f
    THEN DomainError("PreprocessingError", "Required feature missing: product_id", NoDetails)
    ELSE IF f["product_id"].type = "null"
         THEN DomainError("PreprocessingError", "Feature cannot be null: product_id", NoDetails)
         ELSE NoExc

\* self._feature_mapping.get(original_name, original_name)
MappedName(fm, n) == IF n \in DOMAIN fm THEN fm[n] ELSE n

\* DefaultPreprocessor._apply_feature_mapping: a later key overwrites an
\* earlier one mapped to the same name
apply_feature_mapping(fm, f) ==
    IF IsEmptyMapping(fm)
    THEN f
    ELSE [k \in {MappedName(fm, n) : n \in DOMAIN f} |->
            LET sources == {n \in DOMAIN f : MappedName(fm, n) = k}
                last == CHOOSE n \in sources :
                            \A m \in sources : KeyPosition(m) <= KeyPosition(n)
            IN  f[last]]

\* the value _normalize_features stores for one feature
NormalizeValue(v) ==
    IF IsNumber(v) THEN FloatOf(v)
    ELSE IF v.type = "str" THEN StrValue(Lower(v.val))
    ELSE IF v.type = "list"
         THEN LET numbers == SelectSeq(v.items, IsNumber)
              IN  ListValue([i \in 1..Len(numbers) |-> FloatOf(numbers[i])])
         ELSE v

\* DefaultPreprocessor._normalize_features: a new dict
normalize_features(f) == [k \in DOMAIN f |-> NormalizeValue(f[k])]

\* _normalize_features assigning the normalized values to the dict it was
\* given
FeaturesAfterNormalize_InPlace(f) == [k \in DOMAIN f |-> NormalizeValue(f[k])]

\* the dict given to _normalize_features, after the call: the values are
\* stored in a new dict
FeaturesAfterNormalize(f) == f

\* the features given to DefaultPreprocessor.transform, after the call.
\* Without a feature mapping _apply_feature_mapping returns the features
\* themselves, so what _normalize_features does to its argument is done to
\* the features of the request.
FeaturesAfterTransform(fm, f) ==
    IF validate_features(f) # NoExc
    THEN f
    ELSE IF IsEmptyMapping(fm) THEN FeaturesAfterNormalize(f) ELSE f

\* except Exception of DefaultPreprocessor.transform
PreprocessorHandler(e) ==
    DomainError("PreprocessingError", "Failed to preprocess input features", Str(e))

\* DefaultPreprocessor.transform: the exception raised (NoExc when none) and
\* the value returned
DefaultPreprocessor_transform(fm, f) ==
    LET v == validate_features(f) IN
    IF v # NoExc
    THEN [exc |-> PreprocessorHandler(v), value |-> UnsetInput]
    ELSE [exc |-> NoExc, value |-> normalize_features(apply_feature_mapping(fm, f))]

\* ------------------------------------------------------------------------
\* TorchModel and SklearnModel (infrastructure layer)
\* ------------------------------------------------------------------------

Adapters == {"TorchModel", "SklearnModel"}

\* self._loaded_model = None
NotLoaded == "None"

AdapterName(m) == IF m = "TorchModel" THEN "PyTorch" ELSE "Scikit-learn"

\* _load_model: the exception it raises.  Both paths through its try block
\* end in an exception (FileNotFoundError, or the placeholder
\* NotImplementedError), and except Exception wraps either one.
load_model(m, exists) ==
    LET inner == IF ~exists
                 THEN [kind |-> "FileNotFoundError", message |-> "Model file not found",
                       details |-> NoDetails]
                 ELSE [kind |-> "NotImplementedError",
                       message |-> "model loading not yet implemented",
                       details |-> NoDetails]
    IN  DomainError("ModelNotLoadedError",
                    IF m = "TorchModel" THEN "Failed to load PyTorch model"
                    ELSE "Failed to load scikit-learn model",
                    Str(inner))

\* LoadedAfterLoad with the assignment in place, ahead of the placeholder raise
LoadedAfterLoad_Assigned(m, loaded, exists) ==
    IF exists THEN "loaded" ELSE loaded

\* self._loaded_model after _load_model: the assignment is commented out
LoadedAfterLoad(m, loaded, exists) == loaded

\* the two except clauses of predict
AdapterPredictHandler(m, e) ==
    IF e.kind = "NotImplementedError"
    THEN e
    ELSE DomainError("ModelPredictionError",
                     IF m = "TorchModel" THEN "PyTorch model prediction failed"
                     ELSE "Scikit-learn model prediction failed",
                     Str(e))

\* TorchModel.predict, SklearnModel.predict: the exception raised.  No path
\* returns a value: the try block ends in raise NotImplementedError.
AdapterPredict(m, loaded, exists) ==
    LET inTry == IF loaded = NotLoaded
                 THEN load_model(m, exists)
                 ELSE [kind |-> "NotImplementedError",
                       message |-> "model prediction not yet implemented",
                       details |-> NoDetails]
    IN  AdapterPredictHandler(m, inTry)

\* settings.model_version, returned by version() of an adapter
SettingsModelVersion == "v1.0.0"

\* ------------------------------------------------------------------------
\* DefaultPostprocessor (infrastructure layer)
\* ------------------------------------------------------------------------

\* the output_format create_postprocessor passes
ConfiguredOutputFormat == "json"

\* _validate_output without its check
validate_output_NoCheck(raw) == NoExc

\* DefaultPostprocessor._validate_output: the exception raised, NoExc when none
validate_output(raw) ==
    IF raw.type = "null"
    THEN DomainError("PostprocessingError", "Model output cannot be null", NoDetails)
    ELSE NoExc

\* DefaultPostprocessor._format_output: the dict it returns, chosen by the
\* type of the output
format_output(raw) ==
    IF raw.type = "dict" THEN raw.entries
    ELSE IF raw.type \in {"list", "tuple"} THEN [k \in {"forecast"} |-> ListValue(raw.items)]
    ELSE IF IsNumber(raw)
         THEN [k \in {"prediction"} |-> FloatOf([type |-> raw.type, val |-> raw.val,
                                                  items |-> << >>])]
         ELSE [k \in {"result"} |-> StrValue(raw.val)]

\* _enrich_output that keeps a format entry the output already has
enrich_output_KeepFormat(fmt, formatted) ==
    [k \in DOMAIN formatted \cup {"format"} |->
        IF k \in DOMAIN formatted THEN formatted[k] ELSE StrValue(fmt)]

\* DefaultPostprocessor._enrich_output: the dict it returns
enrich_output(fmt, formatted) ==
    [k \in DOMAIN formatted \cup {"format"} |->
        IF k = "format" THEN StrValue(fmt) ELSE formatted[k]]

\* the dict given to _enrich_output, after the call: the entry is assigned
\* to a copy
FormattedAfterEnrich(fmt, formatted) == formatted

\* except Exception of DefaultPostprocessor.transform
PostprocessorHandler(e) ==
    DomainError("PostprocessingError", "Failed to postprocess model output", Str(e))

\* DefaultPostprocessor.transform: the exception raised (NoExc when none),
\* the value returned, and the raw output after the call.  For a dict
\* _format_output returns the output itself, so what _enrich_output does to
\* its argument is done to the output of the model.
DefaultPostprocessor_transform(fmt, raw) ==
    LET v == validate_output(raw) IN
    IF v # NoExc
    THEN [exc |-> PostprocessorHandler(v), value |-> UnsetOutput, raw |-> raw]
    ELSE LET formatted == format_output(raw) IN
         [exc |-> NoExc,
          value |-> enrich_output(fmt, formatted),
          raw |-> IF raw.type = "dict"
                  THEN [raw EXCEPT !.entries = FormattedAfterEnrich(fmt, formatted)]
                  ELSE raw]

\* ------------------------------------------------------------------------
\* State
\* ------------------------------------------------------------------------

VARIABLES
    service,          \* the PredictionService the controller is built with
    preprocessor,     \* the Preprocessor PredictionServiceImpl is built with
    model,            \* the MLModel PredictionServiceImpl is built with
    postprocessor,    \* the Postprocessor PredictionServiceImpl is built with
    model_file_exists, \* whether self._model_path exists on disk
    loaded_model,     \* field _loaded_model of the model adapter
    startup,          \* position of lifespan: "pending", "completed", "failed", "stopped"
    prediction_controller, \* the module-level controller of main.py
    healthResponse,   \* status last answered by /health, "<none>" before
    served,           \* number of /predict requests received so far
    pc,               \* position of the request in flight
    features,         \* feature mapping of the request in flight
    calls,            \* statements of predict executed for this request
    args,             \* the arguments of these statements, one per entry of calls
    results,          \* "ok" or "raised", one per entry of calls
    processed_input,  \* local of predict
    raw_prediction,   \* local of predict
    model_version,    \* local of predict
    processed_output, \* local of predict
    confidence,       \* local of predict
    stepExc,          \* the exception raised inside the failed statement
    svcExc,           \* the exception leaving PredictionService.predict
    svcResponse,      \* the response returned by PredictionService.predict
    raised,           \* the exception reaching the except clauses of post_predict
    httpStatus,       \* status code answered, 0 while there is none
    httpError,        \* detail of the HTTPException raised
    httpOk,           \* PredictionResponseSchema returned by post_predict
    requests,         \* the PredictionRequest objects constructed directly
    responses,        \* the PredictionResponse objects constructed directly
    ctor,             \* the last direct construction: its arguments and outcome
    constructed,      \* number of direct constructions
    invocations,      \* the concurrent invocations of predict, by number
    transforms,       \* number of direct calls of a processor so far
    preMapping,       \* feature_mapping of the preprocessor last called
    preInput,         \* features given to the preprocessor last called
    preAfter,         \* those features after the call
    preResult,        \* what that call raised and returned
    postFormat,       \* output_format of the postprocessor last called
    postInput,        \* raw output given to the postprocessor last called
    postAfter,        \* that raw output after the call
    postResult        \* what that call raised and returned

locals == <<processed_input, raw_prediction, model_version, processed_output, confidence>>

outcome == <<svcExc, svcResponse, raised>>

http == <<httpStatus, httpError, httpOk>>

composition == <<service, preprocessor, model, postprocessor, model_file_exists>>

unitVars == <<requests, responses, ctor, constructed>>

preVars == <<preMapping, preInput, preAfter, preResult>>

postVars == <<postFormat, postInput, postAfter, postResult>>

procVars == <<transforms, preVars, postVars>>

\* what the handling of a /predict request never assigns
fixed ==
    <<composition, startup, prediction_controller, healthResponse, unitVars, invocations,
      procVars>>

requestVars == <<served, pc, features, calls, args, results, locals, stepExc, outcome, http>>

vars == <<fixed, loaded_model, requestVars>>

\* the implementations of the PredictionService interface: the orchestrator
\* of this repository, and any other implementation of the interface
Services == {"PredictionServiceImpl", "PredictionService"}

\* the object graphs a controller is built on: the ones create_prediction_service
\* builds (DefaultPreprocessor and an adapter; no model for an unsupported
\* settings.model_type), and the ones built on other implementations of the
\* domain interfaces
Compositions ==
    {c \in [service : Services,
            preprocessor : {"Preprocessor", "DefaultPreprocessor"},
            model : {"MLModel", "<unsupported>"} \cup Adapters,
            postprocessor : {"Postprocessor", "DefaultPostprocessor"},
            model_file_exists : BOOLEAN] :
        /\ c.service = "PredictionService" =>
              /\ c.preprocessor = "Preprocessor"
              /\ c.model = "MLModel"
              /\ c.postprocessor = "Postprocessor"
        /\ c.model = "<unsupported>" => c.preprocessor = "DefaultPreprocessor"
        /\ c.model # "MLModel" => c.postprocessor = "DefaultPostprocessor"
        /\ c.model \notin Adapters => ~c.model_file_exists}

NoCtor ==
    [entity |-> "<none>", features |-> << >>, prediction |-> UnsetOutput, confidence |-> -1,
     model_version |-> Unset, exc |-> NoExc]

\* the state of the variables of one request before the request is received
RequestReset ==
    /\ calls = << >>
    /\ args = << >>
    /\ results = << >>
    /\ processed_input = UnsetInput
    /\ raw_prediction = UnsetRaw
    /\ model_version = Unset
    /\ processed_output = UnsetOutput
    /\ confidence = -1
    /\ stepExc = NoExc
    /\ svcExc = NoExc
    /\ svcResponse = NoResponse
    /\ raised = NoExc
    /\ httpStatus = 0
    /\ httpError = NoErrorBody
    /\ httpOk = NoResponse

Init ==
    /\ \E c \in Compositions :
          /\ service = c.service
          /\ preprocessor = c.preprocessor
          /\ model = c.model
          /\ postprocessor = c.postprocessor
          /\ model_file_exists = c.model_file_exists
    /\ loaded_model = NotLoaded
    /\ startup = "pending"
    /\ prediction_controller = "None"
    /\ healthResponse = "<none>"
    /\ served = 0
    /\ pc = "idle"
    /\ features = << >>
    /\ RequestReset
    /\ requests = {}
    /\ responses = {}
    /\ ctor = NoCtor
    /\ constructed = 0
    /\ invocations = << >>
    /\ transforms = 0
    /\ preMapping = << >>
    /\ preInput = << >>
    /\ preAfter = << >>
    /\ preResult = [exc |-> NoExc, value |-> UnsetInput]
    /\ postFormat = ConfiguredOutputFormat
    /\ postInput = UnsetRaw
    /\ postAfter = UnsetRaw
    /\ postResult = [exc |-> NoExc, value |-> UnsetOutput, raw |-> UnsetRaw]

\* ------------------------------------------------------------------------
\* Actions
\* ------------------------------------------------------------------------

\* create_model: TRUE when settings.model_type names an adapter, FALSE when
\* it raises ValueError
create_model_succeeds(m) == m # "<unsupported>"

\* lifespan up to its yield: build the service and the controller; an
\* exception of create_prediction_service leaves prediction_controller unset
Lifespan ==
    /\ startup = "pending"
    /\ IF create_model_succeeds(model)
       THEN /\ prediction_controller' = "MCPPredictController"
            /\ startup' = "completed"
       ELSE /\ prediction_controller' = prediction_controller
            /\ startup' = "failed"
    /\ UNCHANGED <<composition, healthResponse, unitVars, invocations, procVars,
                   loaded_model, requestVars>>

\* the finally block of lifespan resetting the controller
ControllerAfterShutdown_Reset == "None"

\* prediction_controller after the finally block of lifespan, which only logs
ControllerAfterShutdown == prediction_controller

\* lifespan after its yield: the application shuts down once no request is
\* in flight, and serves nothing afterwards
Shutdown ==
    /\ startup = "completed"
    /\ pc \in {"idle", "responded", "rejected", "unavailable"}
    /\ startup' = "stopped"
    /\ prediction_controller' = ControllerAfterShutdown
    /\ UNCHANGED <<composition, healthResponse, unitVars, invocations, procVars,
                   loaded_model, requestVars>>

\* health_check that reports on the controller
health_check_Dependency ==
    IF prediction_controller = "None" THEN "unavailable" ELSE "healthy"

\* the body of health_check
health_check == "healthy"

\* GET /health
HealthCheck ==
    /\ startup # "stopped"
    /\ healthResponse' = health_check
    /\ UNCHANGED <<composition, startup, prediction_controller, unitVars, invocations,
                   procVars, loaded_model, requestVars>>

\* status of the response of the framework to a body that fails the
\* validation of PredictionRequestSchema
ValidationStatus == 422

ServiceUnavailable ==
    [error |-> "ServiceUnavailable",
     message |-> "Prediction service not initialized",
     details |-> "Server is starting up or encountered initialization error"]

\* A /predict request arrives: the framework builds PredictionRequestSchema
\* from the body, which runs validate_features_not_empty, and calls the
\* endpoint predict of main.py only when the schema was built; predict
\* answers 503 while prediction_controller is None and calls post_predict
\* otherwise.
Receive(f) ==
    /\ pc \in {"idle", "responded", "rejected", "unavailable"}
    /\ startup # "stopped"
    /\ served < MaxRequests
    /\ served' = served + 1
    /\ features' = f
    /\ calls' = << >>
    /\ args' = << >>
    /\ results' = << >>
    /\ processed_input' = UnsetInput
    /\ raw_prediction' = UnsetRaw
    /\ model_version' = Unset
    /\ processed_output' = UnsetOutput
    /\ confidence' = -1
    /\ stepExc' = NoExc
    /\ svcExc' = NoExc
    /\ svcResponse' = NoResponse
    /\ raised' = NoExc
    /\ httpOk' = NoResponse
    /\ IF ~validate_features_not_empty(f)
       THEN /\ pc' = "rejected"
            /\ httpStatus' = ValidationStatus
            /\ httpError' = NoErrorBody
       ELSE IF prediction_controller = "None"
            THEN /\ pc' = "unavailable"
                 /\ httpStatus' = 503
                 /\ httpError' = ServiceUnavailable
            ELSE /\ pc' = "post_predict"
                 /\ httpStatus' = 0
                 /\ httpError' = NoErrorBody
    /\ UNCHANGED <<fixed, loaded_model>>

\* post_predict up to the call of the service: build the domain request
PostPredictEntry ==
    /\ pc = "post_predict"
    /\ LET v == PredictionRequest_post_init(features) IN
         IF v # NoExc
         THEN /\ raised' = v
              /\ pc' = "except"
         ELSE /\ raised' = raised
              /\ pc' = IF service = "PredictionServiceImpl"
                       THEN PipelineOrder[1]
                       ELSE "service.predict"
    /\ UNCHANGED <<fixed, loaded_model, served, features, calls, args, results, locals,
                   stepExc, svcExc, svcResponse, http>>

\* predict of a PredictionService other than PredictionServiceImpl: returns a
\* response or raises any exception
OtherServicePredict ==
    /\ pc = "service.predict"
    /\ \/ \E r \in ValidResponses :
            /\ svcResponse' = r
            /\ pc' = "return"
            /\ UNCHANGED <<svcExc, raised>>
       \/ \E e \in Exceptions :
            /\ svcExc' = e
            /\ raised' = e
            /\ pc' = "except"
            /\ UNCHANGED svcResponse
    /\ UNCHANGED <<fixed, loaded_model, served, features, calls, args, results, locals,
                   stepExc, http>>

\* ResponseFields with the raw model output as the prediction
ResponseFields_Raw ==
    [prediction |-> raw_prediction, confidence |-> confidence,
     model_version |-> model_version]

\* the fields predict passes to PredictionResponse
ResponseFields ==
    [prediction |-> processed_output, confidence |-> confidence,
     model_version |-> model_version]

\* the arguments predict passes in the statement step
ArgumentOf(step) ==
    CASE step = "preprocessor.transform" -> features
      [] step = "model.predict" -> processed_input
      [] step = "model.version" -> NoArg
      [] step = "postprocessor.transform" -> raw_prediction
      [] step = "_calculate_confidence" -> <<raw_prediction, processed_output>>
      [] step = "PredictionResponse" -> ResponseFields

\* a statement of predict has raised e, and handled is what its except
\* clause raises in turn: the outer handler decides what leaves predict
StepFails(e, handled) ==
    /\ results' = Append(results, "raised")
    /\ stepExc' = e
    /\ svcExc' = OuterHandler(handled)
    /\ raised' = OuterHandler(handled)
    /\ pc' = PcAfterFailure(pc)

StepSucceeds ==
    /\ results' = Append(results, "ok")
    /\ pc' = StepAfter(pc)
    /\ UNCHANGED <<stepExc, svcExc, raised>>

\* Step 1: processed_input = self._preprocessor.transform(request.features)
Step1Preprocess ==
    /\ pc = "preprocessor.transform"
    /\ calls' = Append(calls, pc)
    /\ args' = Append(args, ArgumentOf(pc))
    /\ IF preprocessor = "DefaultPreprocessor"
       THEN LET r == DefaultPreprocessor_transform(ConfiguredFeatureMapping, ArgumentOf(pc))
            IN  /\ features' = FeaturesAfterTransform(ConfiguredFeatureMapping, features)
                /\ IF r.exc = NoExc
                   THEN /\ processed_input' = r.value
                        /\ StepSucceeds
                   ELSE /\ StepFails(r.exc, Step1Handler(r.exc))
                        /\ UNCHANGED processed_input
       ELSE /\ \/ \E v \in ProcessedInputs :
                    /\ processed_input' = v
                    /\ StepSucceeds
               \/ \E e \in Exceptions :
                    /\ StepFails(e, Step1Handler(e))
                    /\ UNCHANGED processed_input
            /\ UNCHANGED features
    /\ UNCHANGED <<fixed, loaded_model, served, raw_prediction, model_version,
                   processed_output, confidence, svcResponse, http>>

\* Step 2, first statement: raw_prediction = self._model.predict(processed_input)
Step2ModelPredict ==
    /\ pc = "model.predict"
    /\ calls' = Append(calls, pc)
    /\ args' = Append(args, ArgumentOf(pc))
    /\ IF model \in Adapters
       THEN LET e == AdapterPredict(model, loaded_model, model_file_exists)
            IN  /\ StepFails(e, Step2Handler(e))
                /\ loaded_model' = IF loaded_model = NotLoaded
                                   THEN LoadedAfterLoad(model, loaded_model, model_file_exists)
                                   ELSE loaded_model
                /\ UNCHANGED raw_prediction
       ELSE /\ \/ \E v \in RawOutputs :
                    /\ raw_prediction' = v
                    /\ StepSucceeds
               \/ \E e \in Exceptions :
                    /\ StepFails(e, Step2Handler(e))
                    /\ UNCHANGED raw_prediction
            /\ UNCHANGED loaded_model
    /\ UNCHANGED <<fixed, served, features, processed_input, model_version,
                   processed_output, confidence, svcResponse, http>>

\* Step 2, second statement: model_version = self._model.version()
Step2ModelVersion ==
    /\ pc = "model.version"
    /\ calls' = Append(calls, pc)
    /\ args' = Append(args, ArgumentOf(pc))
    /\ IF model \in Adapters
       THEN /\ model_version' = SettingsModelVersion
            /\ StepSucceeds
       ELSE \/ \E v \in ModelVersions :
                 /\ model_version' = v
                 /\ StepSucceeds
            \/ \E e \in Exceptions :
                 /\ StepFails(e, Step2Handler(e))
                 /\ UNCHANGED model_version
    /\ UNCHANGED <<fixed, loaded_model, served, features, processed_input, raw_prediction,
                   processed_output, confidence, svcResponse, http>>

\* Step 3: processed_output = self._postprocessor.transform(raw_prediction)
Step3Postprocess ==
    /\ pc = "postprocessor.transform"
    /\ calls' = Append(calls, pc)
    /\ args' = Append(args, ArgumentOf(pc))
    /\ IF postprocessor = "DefaultPostprocessor"
       THEN LET r == DefaultPostprocessor_transform(ConfiguredOutputFormat, ArgumentOf(pc))
            IN  /\ raw_prediction' = r.raw
                /\ IF r.exc = NoExc
                   THEN /\ processed_output' = r.value
                        /\ StepSucceeds
                   ELSE /\ StepFails(r.exc, Step3Handler(r.exc))
                        /\ UNCHANGED processed_output
       ELSE /\ \/ \E v \in ProcessedOutputs :
                    /\ processed_output' = v
                    /\ StepSucceeds
               \/ \E e \in Exceptions :
                    /\ StepFails(e, Step3Handler(e))
                    /\ UNCHANGED processed_output
            /\ UNCHANGED raw_prediction
    /\ UNCHANGED <<fixed, loaded_model, served, features, processed_input,
                   model_version, confidence, svcResponse, http>>

\* Step 4: confidence = self._calculate_confidence(raw_prediction, processed_output)
Step4Confidence ==
    /\ pc = "_calculate_confidence"
    /\ calls' = Append(calls, pc)
    /\ args' = Append(args, ArgumentOf(pc))
    /\ confidence' = calculate_confidence(raw_prediction, processed_output)
    /\ StepSucceeds
    /\ UNCHANGED <<fixed, loaded_model, served, features, processed_input, raw_prediction,
                   model_version, processed_output, svcResponse, http>>

\* Step 5: response = PredictionResponse(...); return response.  A ValueError
\* of __post_init__ is raised outside the three inner try blocks.
Step5BuildResponse ==
    /\ pc = "PredictionResponse"
    /\ calls' = Append(calls, pc)
    /\ args' = Append(args, ArgumentOf(pc))
    /\ LET r == ResponseFields
           v == PredictionResponse_post_init(r.confidence, r.model_version)
       IN  IF v = NoExc
           THEN /\ svcResponse' = r
                /\ StepSucceeds
           ELSE /\ StepFails(v, v)
                /\ UNCHANGED svcResponse
    /\ UNCHANGED <<fixed, loaded_model, served, features, locals, http>>

\* post_predict after the service has returned: build the response schema
PostPredictReturn ==
    /\ pc = "return"
    /\ httpStatus' = 200
    /\ httpOk' = svcResponse
    /\ pc' = "responded"
    /\ UNCHANGED <<fixed, loaded_model, served, features, calls, args, results, locals,
                   stepExc, outcome, httpError>>

\* the except clauses of post_predict
PostPredictExcept ==
    /\ pc = "except"
    /\ httpStatus' = StatusCode(raised)
    /\ httpError' = ErrorDetail(raised)
    /\ pc' = "responded"
    /\ UNCHANGED <<fixed, loaded_model, served, features, calls, args, results, locals,
                   stepExc, outcome, httpOk>>

Next ==
    \/ Lifespan
    \/ Shutdown
    \/ HealthCheck
    \/ \E f \in FeatureMappings : Receive(f)
    \/ PostPredictEntry
    \/ OtherServicePredict
    \/ Step1Preprocess
    \/ Step2ModelPredict
    \/ Step2ModelVersion
    \/ Step3Postprocess
    \/ Step4Confidence
    \/ Step5BuildResponse
    \/ PostPredictReturn
    \/ PostPredictExcept

Spec == Init /\ [][Next]_vars

TypeOK ==
    /\ service \in Services
    /\ model \in {"MLModel", "<unsupported>"} \cup Adapters
    /\ postprocessor \in {"Postprocessor", "DefaultPostprocessor"}
    /\ startup \in {"pending", "completed", "failed", "stopped"}
    /\ prediction_controller \in {"None", "MCPPredictController"}
    /\ served \in 0..MaxRequests
    /\ features \in FeatureMappings
    /\ Len(args) = Len(calls)
    /\ httpStatus \in {0, 200, 400, ValidationStatus, 500, 502, 503}

\* ------------------------------------------------------------------------
\* Direct construction of the entities
\* ------------------------------------------------------------------------

\* confidence values passed to PredictionResponse, in tenths: -0.1, 0.0,
\* 0.8, 1.0 and 1.5
CtorConfidences == {-1, 0, 8, ConfidenceOne, 15}

\* PredictionRequest(features=f)
NewPredictionRequest(f) ==
    /\ constructed < MaxConstructions
    /\ constructed' = constructed + 1
    /\ LET e == PredictionRequest_post_init(f) IN
         /\ ctor' = [entity |-> "PredictionRequest", features |-> f, prediction |-> UnsetOutput,
                     confidence |-> -1, model_version |-> Unset, exc |-> e]
         /\ requests' = IF e = NoExc THEN requests \cup {f} ELSE requests
    /\ UNCHANGED <<composition, startup, prediction_controller, healthResponse,
                   invocations, procVars, loaded_model, requestVars, responses>>

\* PredictionResponse(prediction=p, confidence=c, model_version=v)
NewPredictionResponse(p, c, v) ==
    /\ constructed < MaxConstructions
    /\ constructed' = constructed + 1
    /\ LET e == PredictionResponse_post_init(c, v) IN
         /\ ctor' = [entity |-> "PredictionResponse", features |-> << >>, prediction |-> p,
                     confidence |-> c, model_version |-> v, exc |-> e]
         /\ responses' = IF e = NoExc
                         THEN responses \cup {[prediction |-> p, confidence |-> c,
                                               model_version |-> v]}
                         ELSE responses
    /\ UNCHANGED <<composition, startup, prediction_controller, healthResponse,
                   invocations, procVars, loaded_model, requestVars, requests>>

\* the composition create_prediction_service builds with the default settings
DefaultComposition ==
    /\ service = "PredictionServiceImpl"
    /\ preprocessor = "DefaultPreprocessor"
    /\ model = "SklearnModel"
    /\ postprocessor = "DefaultPostprocessor"

EntityInit == Init /\ DefaultComposition /\ ~model_file_exists

EntityNext ==
    \/ \E f \in FeatureMappings : NewPredictionRequest(f)
    \/ \E p \in ProcessedOutputs, c \in CtorConfidences, v \in ModelVersions :
          NewPredictionResponse(p, c, v)

EntitySpec == EntityInit /\ [][EntityNext]_vars

\* ------------------------------------------------------------------------
\* Concurrent invocations of PredictionServiceImpl.predict on the object
\* graph of create_prediction_service: the invocations share the
\* preprocessor, the model adapter and its field _loaded_model, and are
\* interleaved statement by statement
\* ------------------------------------------------------------------------

\* predict(request) is called: a PredictionRequest has a non-empty mapping
ConcStart(f) ==
    /\ Len(invocations) < MaxInvocations
    /\ PredictionRequest_post_init(f) = NoExc
    /\ invocations' = Append(invocations,
                             [pc |-> PipelineOrder[1], features |-> f,
                              processed_input |-> UnsetInput, exc |-> NoExc])
    /\ UNCHANGED <<composition, startup, prediction_controller, healthResponse,
                   unitVars, procVars, loaded_model, requestVars>>

\* Step 1 of invocation i
ConcPreprocess(i) ==
    /\ invocations[i].pc = "preprocessor.transform"
    /\ LET inv == invocations[i]
           r == DefaultPreprocessor_transform(ConfiguredFeatureMapping, inv.features)
       IN  invocations' =
             [invocations EXCEPT ![i] =
                IF r.exc = NoExc
                THEN [inv EXCEPT !.pc = StepAfter(inv.pc), !.processed_input = r.value]
                ELSE [inv EXCEPT !.pc = "raised",
                                 !.exc = OuterHandler(Step1Handler(r.exc))]]
    /\ UNCHANGED <<composition, startup, prediction_controller, healthResponse,
                   unitVars, procVars, loaded_model, requestVars>>

\* Step 2 of invocation i: predict of the adapter reads and assigns the
\* shared field _loaded_model
ConcModelPredict(i) ==
    /\ invocations[i].pc = "model.predict"
    /\ LET inv == invocations[i]
           e == AdapterPredict(model, loaded_model, model_file_exists)
       IN  invocations' =
             [invocations EXCEPT ![i] =
                [inv EXCEPT !.pc = "raised", !.exc = OuterHandler(Step2Handler(e))]]
    /\ loaded_model' = IF loaded_model = NotLoaded
                       THEN LoadedAfterLoad(model, loaded_model, model_file_exists)
                       ELSE loaded_model
    /\ UNCHANGED <<composition, startup, prediction_controller, healthResponse,
                   unitVars, procVars, requestVars>>

ConcInit ==
    /\ Init
    /\ service = "PredictionServiceImpl"
    /\ preprocessor = "DefaultPreprocessor"
    /\ model \in Adapters

ConcNext ==
    \/ \E f \in FeatureMappings : ConcStart(f)
    \/ \E i \in DOMAIN invocations : ConcPreprocess(i)
    \/ \E i \in DOMAIN invocations : ConcModelPredict(i)

ConcSpec == ConcInit /\ [][ConcNext]_vars

\* ------------------------------------------------------------------------
\* Direct calls of DefaultPreprocessor.transform and
\* DefaultPostprocessor.transform, for any configuration of the two
\* ------------------------------------------------------------------------

\* names a configured feature_mapping can map a feature to
MappedNames == FeatureNames \cup {"sku"}

\* the feature_mapping dicts a DefaultPreprocessor can be built with, the
\* empty one included
ConfiguredFeatureMappings == UNION {[D -> MappedNames] : D \in SUBSET FeatureNames}

\* feature values of every type _normalize_features tells apart
TransformFeatureValues ==
    FeatureValues \cup
        {[type |-> "bool", val |-> "True", items |-> << >>],
         ListValue(<< IntValue("100"), StrValue("n/a") >>)}

TransformFeatures == UNION {[D -> TransformFeatureValues] : D \in SUBSET FeatureNames}

OutputFormats == {"json", "array"}

\* raw outputs of every type _format_output tells apart
TransformRawOutputs ==
    RawOutputs \cup
        {RawValue("tuple", "", Forecast, << >>),
         RawValue("float", "0.5", << >>, << >>),
         RawValue("bool", "True", << >>, << >>),
         RawValue("dict", "", << >>, [k \in {"sales"} |-> IntValue("100")])}

\* DefaultPreprocessor(feature_mapping=fm).transform(f)
PreprocessorTransform(fm, f) ==
    /\ transforms < MaxTransforms
    /\ transforms' = transforms + 1
    /\ preMapping' = fm
    /\ preInput' = f
    /\ preAfter' = FeaturesAfterTransform(fm, f)
    /\ preResult' = DefaultPreprocessor_transform(fm, f)
    /\ UNCHANGED <<composition, startup, prediction_controller, healthResponse,
                   unitVars, invocations, postVars, loaded_model, requestVars>>

\* DefaultPostprocessor(output_format=fmt).transform(raw)
PostprocessorTransform(fmt, raw) ==
    /\ transforms < MaxTransforms
    /\ transforms' = transforms + 1
    /\ postFormat' = fmt
    /\ postInput' = raw
    /\ postAfter' = DefaultPostprocessor_transform(fmt, raw).raw
    /\ postResult' = DefaultPostprocessor_transform(fmt, raw)
    /\ UNCHANGED <<composition, startup, prediction_controller, healthResponse,
                   unitVars, invocations, preVars, loaded_model, requestVars>>

TransformInit == Init /\ DefaultComposition /\ ~model_file_exists

TransformNext ==
    \/ \E fm \in ConfiguredFeatureMappings, f \in TransformFeatures :
          PreprocessorTransform(fm, f)
    \/ \E fmt \in OutputFormats, raw \in TransformRawOutputs :
          PostprocessorTransform(fmt, raw)

TransformSpec == TransformInit /\ [][TransformNext]_vars

\* ------------------------------------------------------------------------
\* Properties
\* ------------------------------------------------------------------------

Impl == service = "PredictionServiceImpl"

\* the statement of predict that raised, "<none>" when none has
FailedCall ==
    IF Len(results) > 0 /\ results[Len(results)] = "raised"
    THEN calls[Len(calls)]
    ELSE "<none>"

AllOk(n) == Len(results) >= n /\ \A i \in 1..n : results[i] = "ok"

\* C1: the statements of predict run in the order preprocessor.transform,
\* model.predict, model.version, postprocessor.transform, confidence,
\* PredictionResponse; a statement starts only when every earlier one of the
\* invocation succeeded, and a returned response means all six have run.
C1_FixedOrder ==
    LET order == << "preprocessor.transform", "model.predict", "model.version",
                    "postprocessor.transform", "_calculate_confidence",
                    "PredictionResponse" >>
    IN  /\ Len(calls) <= Len(order)
        /\ Len(results) = Len(calls)
        /\ \A i \in 1..Len(calls) : calls[i] = order[i]
        /\ \A i \in 2..Len(calls) : results[i - 1] = "ok"
        /\ (Impl /\ pc \in {"return", "responded"} /\ svcResponse # NoResponse)
              => (calls = order /\ AllOk(Len(order)))

C1_Witness ==
    /\ Impl
    /\ pc = "responded"
    /\ httpStatus = 200
    /\ Len(calls) = 6

\* C2: within one invocation no collaborator is called twice, a failed
\* statement is the last one executed (no retry, nothing after it), and on
\* success each of the four collaborator calls has been made.
C2_AtMostOnce ==
    /\ \A i, j \in 1..Len(calls) : calls[i] = calls[j] => i = j
    /\ \A i \in 1..Len(results) : results[i] = "raised" => i = Len(calls)
    /\ FailedCall # "<none>" => pc \in {"except", "responded"}
    /\ (Impl /\ svcResponse # NoResponse) =>
          \A c \in {"preprocessor.transform", "model.predict", "model.version",
                    "postprocessor.transform"} :
              Cardinality({i \in 1..Len(calls) : calls[i] = c}) = 1

C2_Witness ==
    /\ Impl
    /\ pc = "responded"
    /\ calls = << "preprocessor.transform", "model.predict" >>
    /\ results = << "ok", "raised" >>

C6_ResponseValidationFailure ==
    (Impl /\ FailedCall = "PredictionResponse") =>
        /\ AllOk(4)
        /\ stepExc.kind = "ValueError"
        /\ svcExc.kind = "PredictionServiceError"
        /\ svcExc.details = Str(stepExc)
        /\ svcResponse = NoResponse

C6_Witness ==
    /\ Impl
    /\ pc = "responded"
    /\ FailedCall = "PredictionResponse"
    /\ model_version = ""
    /\ httpError.error = "PredictionServiceError"

\* C7 (as claimed): when a collaborator itself raises PreprocessingError,
\* ModelPredictionError or PostprocessingError, the exception leaving predict
\* is that exception: same kind, same message, same details.
C7_PropagatesUnchanged ==
    (Impl /\ FailedCall \in {"preprocessor.transform", "model.predict",
                             "model.version", "postprocessor.transform"}
          /\ stepExc.kind \in StepErrorKinds)
        => svcExc = stepExc

\* the kinds post_predict names in an except clause, with their statuses
ListedStatus ==
    [k \in DomainErrorKinds |->
        CASE k = "PreprocessingError" -> 400
          [] k = "InvalidFeatureError" -> 400
          [] k = "ModelNotLoadedError" -> 503
          [] k = "ModelPredictionError" -> 503
          [] k = "PostprocessingError" -> 502
          [] k = "PredictionServiceError" -> 500]

\* C8: the status answered for an error of the service is the one the table
\* gives for its kind, whatever its message and details.
C8_StatusByKind ==
    (pc = "responded" /\ svcExc # NoExc /\ svcExc.kind \in DomainErrorKinds)
        => httpStatus = ListedStatus[svcExc.kind]

C8_Witness ==
    /\ pc = "responded"
    /\ svcExc.kind = "ModelNotLoadedError"
    /\ svcExc.message = "cause B"
    /\ httpStatus = 503

\* C9: an exception reaching post_predict that is none of the six listed
\* kinds is answered with status 500, as an unexpected internal error.
C9_UnlistedIs500 ==
    (pc = "responded" /\ raised # NoExc /\ raised.kind \notin DomainErrorKinds)
        => /\ httpStatus = 500
           /\ httpError.error = "InternalServerError"

C9_Witness ==
    /\ pc = "responded"
    /\ raised.kind = "DomainException"
    /\ httpStatus = 500

\* C10 (as claimed): every failure response names the kind of the exception
\* that was raised and carries its message and its details.
C10_ErrorBodyOfRaised ==
    (pc = "responded" /\ raised # NoExc) =>
        httpError = [error |-> raised.kind, message |-> raised.message,
                     details |-> raised.details]

\* C10 (amended): a failure response for one of the six listed kinds names
\* the kind and carries the exception's message and details; for any other
\* exception it is InternalServerError, a fixed message, and the
\* exception's text as details.
C10_ErrorBody ==
    (pc = "responded" /\ raised # NoExc) =>
        IF raised.kind \in DomainErrorKinds
        THEN httpError = [error |-> raised.kind, message |-> raised.message,
                          details |-> raised.details]
        ELSE httpError = [error |-> "InternalServerError",
                          message |-> "An unexpected error occurred",
                          details |-> raised.message]

C10_Witness ==
    /\ pc = "responded"
    /\ raised.kind = "InvalidFeatureError"
    /\ raised.details = "detail A"
    /\ httpError.details = "detail A"

\* C11: a response returned by predict has 0.0 <= confidence <= 1.0 and a
\* non-empty model_version, and so has the response the boundary answers.
C11_ResponseInRange ==
    Impl =>
        /\ svcResponse # NoResponse =>
              /\ 0 <= svcResponse.confidence
              /\ svcResponse.confidence <= ConfidenceOne
              /\ svcResponse.model_version # ""
        /\ httpStatus = 200 =>
              /\ 0 <= httpOk.confidence
              /\ httpOk.confidence <= ConfidenceOne
              /\ httpOk.model_version # ""

C11_Witness ==
    /\ Impl
    /\ pc = "responded"
    /\ httpStatus = 200
    /\ httpOk.model_version = "v1.0.0"
    /\ features # << >>

\* C12: on success the response is built from the values of this
\* invocation: the preprocessor received the request's features, the model
\* the preprocessor's result, the postprocessor the model's result; the
\* prediction is the postprocessor's result, model_version the value
\* version() returned, and confidence 0.8 whatever the outputs are.
C12_ResponseFromPipeline ==
    (Impl /\ svcResponse # NoResponse) =>
        /\ args[1] = features
        /\ args[2] = processed_input
        /\ args[4] = raw_prediction
        /\ svcResponse.prediction = processed_output
        /\ svcResponse.model_version = model_version
        /\ svcResponse.confidence = 8

C12_Witness ==
    /\ Impl
    /\ pc = "responded"
    /\ raw_prediction = ListOutput
    /\ httpOk.prediction = [k \in {"result"} |-> StrValue("output 2")]
    /\ httpOk.confidence = 8

\* C13: a request with an empty features mapping is answered with a 4xx
\* status before post_predict is entered: no PredictionService.predict, no
\* collaborator call.
C13_EmptyRejected ==
    (served > 0 /\ IsEmptyMapping(features)) =>
        /\ pc = "rejected"
        /\ httpStatus \in 400..499
        /\ calls = << >>
        /\ svcExc = NoExc
        /\ svcResponse = NoResponse
        /\ raised = NoExc

C13_Witness ==
    /\ pc = "rejected"
    /\ IsEmptyMapping(features)
    /\ prediction_controller = "MCPPredictController"
    /\ httpStatus = 422

\* C16: with a TorchModel or SklearnModel, whose predict ends in the
\* not-implemented placeholder, the pipeline raises ModelPredictionError and
\* the boundary answers 503 with error ModelPredictionError.
C16_AdapterFailureIs503 ==
    (Impl /\ model \in Adapters /\ Len(calls) >= 2) =>
        /\ FailedCall = "model.predict"
        /\ svcExc.kind = "ModelPredictionError"
        /\ pc = "responded" =>
              /\ httpStatus = 503
              /\ httpError.error = "ModelPredictionError"

C16_Witness ==
    /\ model = "TorchModel"
    /\ model_file_exists
    /\ FailedCall = "model.predict"
    /\ pc = "responded"
    /\ httpStatus = 503

\* C17 (as claimed): the PreprocessingError leaving the pipeline carries the
\* description of the original failure as its details; for a request without
\* product_id handled by DefaultPreprocessor, the details of the error
\* response name the missing feature.
C17_DetailsNameTheFailure ==
    (Impl /\ FailedCall = "preprocessor.transform" /\ pc = "responded") =>
        /\ httpError.details = Str(stepExc)
        /\ (preprocessor = "DefaultPreprocessor" /\ "product_id" \notin DOMAIN features)
              => httpError.details = "Required feature missing: product_id"

\* C19: /health answers "healthy" in every state of the running
\* application, whether or not the controller is set and whatever /predict answers, and answering it changes
\* nothing else: no collaborator is called.
C19_HealthAlwaysHealthy ==
    /\ [](healthResponse \in {"<none>", "healthy"})
    /\ [](startup # "stopped" => ENABLED HealthCheck)
    /\ [][healthResponse' # healthResponse =>
            (healthResponse' = "healthy" /\ UNCHANGED <<loaded_model, requestVars>>)]_vars

C19_Witness ==
    /\ healthResponse = "healthy"
    /\ prediction_controller = "None"
    /\ pc = "unavailable"

\* C20 (as claimed): predict of an adapter whose model is not loaded raises
\* ModelNotLoadedError; it raises ModelPredictionError only when inference
\* itself fails.
C20_NotLoadedIsRaised ==
    (Impl /\ model \in Adapters /\ FailedCall = "model.predict"
          /\ loaded_model = NotLoaded)
        => stepExc.kind = "ModelNotLoadedError"

\* C14: constructing a PredictionRequest fails exactly when the mapping is
\* empty, so every PredictionRequest that exists has a non-empty mapping.
C14_RequestNonEmpty ==
    /\ ctor.entity = "PredictionRequest" =>
          /\ DOMAIN ctor.features = {} => ctor.exc.kind = "ValueError"
          /\ DOMAIN ctor.features # {} => (ctor.exc = NoExc /\ ctor.features \in requests)
    /\ \A r \in requests : DOMAIN r # {}

C14_Witness ==
    /\ ctor.entity = "PredictionRequest"
    /\ DOMAIN ctor.features = {}
    /\ ctor.exc.kind = "ValueError"
    /\ requests # {}

\* C15: constructing a PredictionResponse succeeds exactly when
\* 0.0 <= confidence <= 1.0 and model_version is non-empty: 1.5 and -0.1
\* fail, 0.0 and 1.0 succeed, an empty model_version fails.
C15_ResponseValidation ==
    /\ ctor.entity = "PredictionResponse" =>
          /\ ctor.exc = NoExc <=>
                (ctor.confidence \in {0, 8, 10} /\ ctor.model_version # "")
          /\ ctor.exc # NoExc => ctor.exc.kind = "ValueError"
          /\ ctor.confidence \in {-1, 15} => ctor.exc # NoExc
          /\ ctor.model_version = "" => ctor.exc # NoExc
    /\ \A r \in responses :
          /\ 0 <= r.confidence
          /\ r.confidence <= 10
          /\ r.model_version # ""

C15_Witness ==
    /\ ctor.entity = "PredictionResponse"
    /\ ctor.confidence = 10
    /\ ctor.exc = NoExc
    /\ \E r \in responses : r.confidence = 0

\* what predict raises for the features f when it runs alone, on an adapter
\* that has never been called
SoloOutcome(f) ==
    LET r == DefaultPreprocessor_transform(ConfiguredFeatureMapping, f) IN
    IF r.exc # NoExc
    THEN OuterHandler(Step1Handler(r.exc))
    ELSE OuterHandler(Step2Handler(AdapterPredict(model, NotLoaded, model_file_exists)))

\* C18: under every interleaving of the invocations, each invocation ends as
\* it would have ended alone, and the field the invocations share is never
\* written.
C18_Independent ==
    /\ loaded_model = NotLoaded
    /\ \A i \in DOMAIN invocations :
          invocations[i].pc = "raised" =>
              invocations[i].exc = SoloOutcome(invocations[i].features)

C18_Witness ==
    /\ Len(invocations) = 2
    /\ invocations[1].pc = "model.predict"
    /\ invocations[2].pc = "raised"
    /\ invocations[2].exc.kind = "ModelPredictionError"
    /\ model_file_exists

\* C21: with DefaultPreprocessor, a request whose features lack product_id
\* or map it to null fails in preprocessor.transform with PreprocessingError,
\* no later statement of predict runs and the answer is 400; a request with
\* a non-null product_id passes preprocessor.transform.
C21_MissingProductIdIs400 ==
    (Impl /\ preprocessor = "DefaultPreprocessor" /\ Len(calls) >= 1) =>
        LET f == args[1]
            invalid == "product_id" \notin DOMAIN f \/ f["product_id"] = NullValue
        IN  /\ invalid =>
                 /\ calls = << "preprocessor.transform" >>
                 /\ results = << "raised" >>
                 /\ stepExc.kind = "PreprocessingError"
                 /\ svcExc.kind = "PreprocessingError"
                 /\ pc = "responded" =>
                       (httpStatus = 400 /\ httpError.error = "PreprocessingError")
            /\ ~invalid => results[1] = "ok"

C21_Witness ==
    /\ Impl
    /\ preprocessor = "DefaultPreprocessor"
    /\ pc = "responded"
    /\ httpStatus = 400
    /\ DOMAIN features = {"product_id", "season"}
    /\ features["product_id"] = NullValue

C24_UnsetAnswers503 ==
    (prediction_controller = "None" /\ served > 0) =>
        /\ pc = "unavailable"
        /\ httpStatus = 503
        /\ httpError.error = "ServiceUnavailable"

\* C24: a /predict request whose body passes the schema is answered 503
\* ServiceUnavailable without any statement of the pipeline when
\* prediction_controller is unset, and is handed to post_predict when it is
\* set; a controller that is set is never unset.
C24_UnavailableUntilStartup ==
    /\ [](pc = "unavailable" =>
            /\ httpStatus = 503
            /\ httpError = ServiceUnavailable
            /\ calls = << >>
            /\ svcResponse = NoResponse)
    /\ []((prediction_controller = "None" /\ served > 0 /\ ~IsEmptyMapping(features)) =>
            pc = "unavailable")
    /\ [][(served' # served /\ ~IsEmptyMapping(features')) =>
            IF prediction_controller = "None"
            THEN pc' = "unavailable"
            ELSE pc' = "post_predict"]_vars
    /\ [][prediction_controller # "None" =>
            prediction_controller' = prediction_controller]_vars

C24_Witness ==
    /\ prediction_controller = "MCPPredictController"
    /\ startup = "completed"
    /\ pc = "unavailable"
    /\ httpStatus = 503

\* C25: predict of PredictionServiceImpl ends with a response or with one of
\* PreprocessingError, ModelPredictionError, PostprocessingError and
\* PredictionServiceError, never with both and never with another kind; a
\* ModelNotLoadedError of the model leaves as ModelPredictionError, and no
\* answer to an error of this service names ModelNotLoadedError or
\* InvalidFeatureError.
C25_FiveOutcomes ==
    Impl =>
        /\ svcExc.kind \in {"<none>", "PreprocessingError", "ModelPredictionError",
                            "PostprocessingError", "PredictionServiceError"}
        /\ ~(svcExc # NoExc /\ svcResponse # NoResponse)
        /\ pc \in {"return", "except"} => (svcExc # NoExc \/ svcResponse # NoResponse)
        /\ (stepExc.kind = "ModelNotLoadedError"
               /\ FailedCall \in {"model.predict", "model.version"})
              => svcExc.kind = "ModelPredictionError"
        /\ raised = svcExc
        /\ httpError.error \notin {"ModelNotLoadedError", "InvalidFeatureError"}

C25_Witness ==
    /\ Impl
    /\ pc = "responded"
    /\ FailedCall = "model.predict"
    /\ stepExc.kind = "ModelNotLoadedError"
    /\ httpError.error = "ModelPredictionError"
    /\ model = "MLModel"

\* the composition create_prediction_service builds, for any model_type
FactoryComposition ==
    /\ Impl
    /\ preprocessor = "DefaultPreprocessor"
    /\ model # "MLModel"
    /\ postprocessor = "DefaultPostprocessor"

\* C26: with the composition of create_prediction_service no request gets a
\* success response: a request that passes the schema is answered 400 or
\* 503, postprocessor.transform is never called and _loaded_model stays unset.
C26_NeverSucceeds ==
    FactoryComposition =>
        /\ svcResponse = NoResponse
        /\ httpStatus # 200
        /\ \A i \in 1..Len(calls) : calls[i] \in {"preprocessor.transform", "model.predict"}
        /\ loaded_model = NotLoaded
        /\ (pc \in {"responded", "unavailable"} /\ ~IsEmptyMapping(features)) =>
              httpStatus \in {400, 503}

C26_Witness ==
    /\ FactoryComposition
    /\ model = "TorchModel"
    /\ model_file_exists
    /\ served = 2
    /\ pc = "responded"
    /\ calls = << "preprocessor.transform", "model.predict" >>
    /\ httpStatus = 503

\* C27: after DefaultPreprocessor.transform the features of the request are
\* what they were when it was called, and after
\* DefaultPostprocessor.transform the raw output of the model is what it was
\* when it was called, whether the call returned or raised.
C27_InputsUnchanged ==
    Impl =>
        /\ (preprocessor = "DefaultPreprocessor" /\ Len(calls) >= 1) => features = args[1]
        /\ (postprocessor = "DefaultPostprocessor" /\ Len(calls) >= 4) =>
              raw_prediction = args[4]

C27_Witness ==
    /\ Impl
    /\ preprocessor = "DefaultPreprocessor"
    /\ postprocessor = "DefaultPostprocessor"
    /\ pc = "responded"
    /\ httpStatus = 200
    /\ raw_prediction = DictOutput
    /\ processed_input # features
    /\ httpOk.prediction["format"] = StrValue("json")

\* C28 (as claimed): the mapping DefaultPreprocessor.transform returns has
\* one entry per feature it was given, under the mapped name of the feature.
C28_NoFeatureLost ==
    (transforms > 0 /\ preInput # << >> /\ preResult.exc = NoExc) =>
        /\ Cardinality(DOMAIN preResult.value) = Cardinality(DOMAIN preInput)
        /\ \A n \in DOMAIN preInput :
              /\ MappedName(preMapping, n) \in DOMAIN preResult.value
              /\ preResult.value[MappedName(preMapping, n)] = NormalizeValue(preInput[n])

====
